---- MODULE Spec2Model ----
(***************************************************************************)
(* URBANIX chat-completion fallback proxy (server/chatServer.ts) and the   *)
(* chat widget that drives it (components/Chatbot.tsx, two versions).      *)
(*                                                                         *)
(* Strings are sequences of tokens: a token is a run of characters that    *)
(* the code never splits (a model name, a fixed piece of a template        *)
(* literal, one whitespace character).  Concatenation is \o, String.trim   *)
(* strips whitespace tokens from both ends, String.includes is a search    *)
(* for a contiguous run of tokens.                                         *)
(***************************************************************************)
EXTENDS Integers, Sequences, FiniteSets, TLC

(* ------------------------------ bounds --------------------------------- *)

\* number of /api/chat requests the proxy handles at the same time
MaxReq == 1

\* number of messages the user sends
MaxMsgs == 1
\* requests in flight at once where the claim is about their interleaving
MaxPair == 2
\* longest list of model names given to the filter of line 22 on its own
MaxLen == 3
\* messages the user sends, and calls of the widget in flight at once, where
\* the claim is about a message sent while another is being answered
MaxRace == 2

(* --------------------------- JavaScript values ------------------------- *)

Undefined == [t |-> "undefined", s |-> <<>>]
Num == [t |-> "number", s |-> <<>>]
Str(s) == [t |-> "string", s |-> s]

Null == [t |-> "null", message |-> <<>>]
Error(msg) == [t |-> "error", message |-> msg]

WhiteSpace == {" ", "\n"}

RECURSIVE TrimStart(_)
TrimStart(s) ==
  IF s # <<>> /\ Head(s) \in WhiteSpace THEN TrimStart(Tail(s)) ELSE s

RECURSIVE TrimEnd(_)
TrimEnd(s) ==
  IF s # <<>> /\ s[Len(s)] \in WhiteSpace
    THEN TrimEnd(SubSeq(s, 1, Len(s) - 1))
    ELSE s

\* no trimming at all
TrimNone(s) == s

\* String.prototype.trim
Trim(s) == TrimEnd(TrimStart(s))

\* truthiness of a JavaScript value, as `!prompt` and `x || ''` read it
Truthy(v) == v.t = "number" \/ (v.t = "string" /\ v.s # <<>>)

\* Array.prototype.indexOf: the first index holding m, 0 when there is none
\* (indexes are 1-based here, JavaScript's -1 is 0)
IndexOf(arr, m) ==
  IF \E i \in 1..Len(arr) : arr[i] = m
    THEN CHOOSE i \in 1..Len(arr) :
           arr[i] = m /\ \A j \in 1..(i - 1) : arr[j] # m
    ELSE 0

\* a loop that splices repeated entries out of the array it walks, and so
\* steps over the entry that follows each one it removes
RECURSIVE SpliceRepeated(_, _)
SpliceRepeated(arr, i) ==
  IF i > Len(arr) THEN arr
  ELSE IF IndexOf(arr, arr[i]) # i
    THEN SpliceRepeated(SubSeq(arr, 1, i - 1) \o SubSeq(arr, i + 1, Len(arr)), i + 1)
    ELSE SpliceRepeated(arr, i + 1)

FilterFirstSplice(arr, n) == SpliceRepeated(SubSeq(arr, 1, n), 1)

\* arr.filter((m, idx, arr) => arr.indexOf(m) === idx)
RECURSIVE FilterFirst(_, _)
FilterFirst(arr, n) ==
  IF n = 0 THEN <<>>
  ELSE IF IndexOf(arr, arr[n]) = n
    THEN Append(FilterFirst(arr, n - 1), arr[n])
    ELSE FilterFirst(arr, n - 1)

(* ------------------------------ the proxy ------------------------------ *)

DefaultModel == <<"tinyllama">>
OrcaMini == <<"orca-mini">>
Mistral == <<"mistral">>
NeuralChat == <<"neural-chat">>

\* a destructuring without the default
ModelNoDefault(m) == m.s

\* let { prompt, model = 'tinyllama' } = req.body
ModelOrDefault(m) == IF m.t = "undefined" THEN DefaultModel ELSE m.s

\* [model, 'orca-mini', 'mistral'] before the filter
Candidates(model) == <<model, OrcaMini, Mistral>>

\* the candidate list without the filter
ModelsToTryUnfiltered(model) == Candidates(model)

ModelsToTry(model) == FilterFirst(Candidates(model), Len(Candidates(model)))

\* a check for an absent prompt only
PromptUndefinedOnly(prompt) == prompt.t = "undefined"

\* if (!prompt)
PromptMissing(prompt) == ~Truthy(prompt)

\* a note with the two names interchanged
FallbackNoteSwapped(modelName, model) ==
  <<"\n", "\n", "_(Used fallback model '">> \o model \o <<"' - ">>
    \o modelName \o <<" not available)_">>

\* lines 58-59: the text appended to the response of a fallback model
FallbackNote(modelName, model) ==
  <<"\n", "\n", "_(Used fallback model '">> \o modelName \o <<"' - ">>
    \o model \o <<" not available)_">>

\* the note decided without looking at the requested model
NeedsNoteNotMistral(modelName, model) == modelName # Mistral

\* the note for every model other than the requested one
NeedsNoteAnyFallback(modelName, model) == modelName # model

\* if (modelName !== model && modelName !== 'mistral')
NeedsNote(modelName, model) == modelName # model /\ modelName # Mistral

FinalResponse(responseText, modelName, model) ==
  IF NeedsNote(modelName, model)
    THEN responseText \o FallbackNote(modelName, model)
    ELSE responseText

\* new Error(`Ollama error: ${response.status} - ${errText}`)
OllamaError(status, errText) ==
  Error(<<"Ollama error: ", ToString(status), " - ">> \o errText)

EmptyError == Error(<<"Empty response from model">>)
AllFailedError == Error(<<"All models failed - no available models in Ollama">>)

\* response.ok of node-fetch: a status of 200..299
Ok(status) == status \in 200..299

(* --------------------------- the environment --------------------------- *)

\* request bodies a caller may post
Prompts == {Undefined, Str(<<>>), Str(<<"What reduces emissions?">>)}
Models == {Undefined, Str(Mistral), Str(OrcaMini), Str(NeuralChat)}

\* what the inference backend may answer
Statuses == {200, 404, 500}
ErrTexts == {<<"model not found">>}
\* data.response of a 2xx JSON body
Responses ==
  {Undefined, Num, Str(<<>>), Str(<<" ", "\n">>), Str(<<" ", "hello", "\n">>)}

\* what node-fetch rejects with
FetchFailed == Error(<<"request to http://localhost:11434/api/generate failed">>)
BodyFailed == Error(<<"Premature close">>)
JsonFailed == Error(<<"invalid json response body">>)
\* what the runtime throws when data.response is no string
TypeError == Error(<<"data.response?.trim is not a function">>)

(* -------------------------------- state -------------------------------- *)

VARIABLES
  req,         \* the proxy: one record of handler locals per request slot
  widget,      \* which Chatbot.tsx is mounted, "none" without a chat widget
  messages,    \* the widget's transcript
  inputValue,  \* the widget's textarea
  isLoading,   \* the widget's loading flag
  gen,         \* the widget's running generateBotResponse calls, one per slot
  health,      \* the reply of /api/health on its way to the caller, if any
  dedup        \* a list of model names and what line 22's filter makes of it

cvars == <<widget, messages, inputValue, isLoading, gen>>
avars == <<health, dedup>>
vars == <<req, cvars, avars>>

Rids == 1..MaxReq

\* a request slot no handler is running in
IdleReq ==
  [pc |-> "idle", prompt |-> Undefined, named |-> Undefined, model |-> <<>>,
   modelsToTry |-> <<>>,
   idx |-> 0, lastError |-> Null, status |-> 0, data |-> Undefined,
   calls |-> <<>>, log |-> <<>>, replies |-> <<>>, closed |-> FALSE]

\* the candidate of the running iteration
ModelName(st) == st.modelsToTry[st.idx]

LogLine(kind, modelName, message) ==
  [kind |-> kind, model |-> modelName, message |-> message]

\* the handler resumes after an await and the backend's view of the request's
\* last call is how it ended; log holds the console lines of the running step
Settle(st, outcome) ==
  [st EXCEPT !.calls[Len(st.calls)].outcome = outcome, !.log = <<>>]

\* res.status(400).json({ error: 'Prompt is required' })
Reply400 ==
  [status |-> 400, keys |-> {"error"}, response |-> <<>>,
   error |-> <<"Prompt is required">>, details |-> <<>>]

\* res.json({ response: finalResponse })
Reply200(finalResponse) ==
  [status |-> 200, keys |-> {"response"}, response |-> finalResponse,
   error |-> <<>>, details |-> <<>>]

\* res.status(500).json({ error: ..., details: error.message })
Reply500(error) ==
  [status |-> 500, keys |-> {"error", "details"}, response |-> <<>>,
   error |-> <<"Failed to communicate with Ollama">>,
   details |-> error.message]

\* the outer catch: console.error and the 500 reply
Fail(st, error) ==
  [st EXCEPT !.pc = "replied",
             !.log = Append(@, LogLine("server error", <<>>, error.message)),
             !.replies = Append(@, Reply500(error))]

\* a loop that leaves one candidate early
LoopHeadSkipsLast(st) ==
  IF st.idx + 1 < Len(st.modelsToTry) \/ st.idx = 0
    THEN [st EXCEPT
            !.idx = @ + 1,
            !.pc = "fetch",
            !.status = 0,
            !.data = Undefined,
            !.log = Append(@, LogLine("trying", st.modelsToTry[st.idx + 1], <<>>)),
            !.calls = Append(@, [model |-> st.modelsToTry[st.idx + 1],
                                 outcome |-> "pending"])]
    ELSE Fail(st, IF st.lastError = Null THEN AllFailedError ELSE st.lastError)

\* a loop that issues the fetches of all remaining candidates without awaiting
LoopHeadParallel(st) ==
  IF st.idx < Len(st.modelsToTry)
    THEN [st EXCEPT
            !.idx = @ + 1,
            !.pc = "fetch",
            !.status = 0,
            !.data = Undefined,
            !.log = Append(@, LogLine("trying", st.modelsToTry[st.idx + 1], <<>>)),
            !.calls = @ \o [i \in 1..(Len(st.modelsToTry) - st.idx) |->
                              [model |-> st.modelsToTry[st.idx + i],
                               outcome |-> "pending"]]]
    ELSE Fail(st, IF st.lastError = Null THEN AllFailedError ELSE st.lastError)

\* a loop that gives the primary model a second call before it moves on
LoopHeadRetry(st) ==
  IF st.idx = 1 /\ Len(st.calls) = 1
    THEN [st EXCEPT
            !.pc = "fetch",
            !.status = 0,
            !.data = Undefined,
            !.log = Append(@, LogLine("trying", st.modelsToTry[1], <<>>)),
            !.calls = Append(@, [model |-> st.modelsToTry[1], outcome |-> "pending"])]
  ELSE IF st.idx < Len(st.modelsToTry)
    THEN [st EXCEPT
            !.idx = @ + 1,
            !.pc = "fetch",
            !.status = 0,
            !.data = Undefined,
            !.log = Append(@, LogLine("trying", st.modelsToTry[st.idx + 1], <<>>)),
            !.calls = Append(@, [model |-> st.modelsToTry[st.idx + 1],
                                 outcome |-> "pending"])]
    ELSE Fail(st, IF st.lastError = Null THEN AllFailedError ELSE st.lastError)

\* the head of `for (const modelName of modelsToTry)`: the next candidate's
\* fetch is issued, or the loop is left and line 71 throws into the outer catch
LoopHead(st) ==
  IF st.idx < Len(st.modelsToTry)
    THEN [st EXCEPT
            !.idx = @ + 1,
            !.pc = "fetch",
            !.status = 0,
            !.data = Undefined,
            !.log = Append(@, LogLine("trying", st.modelsToTry[st.idx + 1], <<>>)),
            !.calls = Append(@, [model |-> st.modelsToTry[st.idx + 1],
                                 outcome |-> "pending"])]
    ELSE Fail(st, IF st.lastError = Null THEN AllFailedError ELSE st.lastError)

\* only the first failure is kept
ContinueKeepFirst(st, error) ==
  LoopHead([st EXCEPT !.lastError = IF @ = Null THEN error ELSE @])

\* lastError = ...; continue
Continue(st, error) == LoopHead([st EXCEPT !.lastError = error])

\* an exception that ends the request
CaughtAborts(st, err) == Fail([st EXCEPT !.lastError = err], err)

\* the inner catch: lastError = err, the log line, the next iteration
Caught(st, err) ==
  Continue([st EXCEPT !.log = Append(@, LogLine("exception", ModelName(st), err.message))],
           err)

\* lines 41-46: the non-OK branch once response.text() has resolved
BackendError(st, errText) ==
  LET e == OllamaError(st.status, errText) IN
  Continue([st EXCEPT !.log = Append(@, LogLine("failed", ModelName(st), e.message))],
           e)

\* data.response?.trim() || ''
ResponseText(response) ==
  IF response.t = "undefined" THEN <<>>
  ELSE IF Truthy(Str(Trim(response.s))) THEN Trim(response.s) ELSE <<>>

\* a success branch that replies and goes on with the loop
SucceedNoReturn(st, responseText) ==
  LoopHead([st EXCEPT
              !.log = Append(@, LogLine("success", ModelName(st), <<>>)),
              !.replies = Append(@, Reply200(
                  FinalResponse(responseText, ModelName(st), st.model)))])

\* lines 56-63: the success branch
Succeed(st, responseText) ==
  [st EXCEPT !.pc = "replied",
             !.log = Append(@, LogLine("success", ModelName(st), <<>>)),
             !.replies = Append(@, Reply200(
                 FinalResponse(responseText, ModelName(st), st.model)))]

\* a 2xx branch without the check of line 51
ParsedAcceptsEmpty(st, response) ==
  IF response.t = "number" THEN Caught(Settle(st, "exception"), TypeError)
  ELSE Succeed(Settle(st, "success"), ResponseText(response))

\* lines 48-63: the 2xx branch once response.json() has resolved
Parsed(st, response) ==
  IF response.t = "number" THEN Caught(Settle(st, "exception"), TypeError)
  ELSE IF ResponseText(response) = <<>>
    THEN Continue(Settle(st, "empty"), EmptyError)
    ELSE Succeed(Settle(st, "success"), ResponseText(response))

\* a validation that replies 400 without returning
AcceptNoReturn(prompt, model) ==
  LoopHead([IdleReq EXCEPT !.prompt = prompt, !.named = model,
                           !.model = ModelOrDefault(model),
                           !.modelsToTry = ModelsToTry(ModelOrDefault(model)),
                           !.replies = IF PromptMissing(prompt) THEN <<Reply400>>
                                                                ELSE <<>>])

\* lines 14-25: destructuring, validation, the candidate list, the first fetch
Accept(prompt, model) ==
  IF PromptMissing(prompt)
    THEN [IdleReq EXCEPT !.pc = "replied", !.prompt = prompt, !.named = model,
                         !.replies = <<Reply400>>]
    ELSE LoopHead([IdleReq EXCEPT !.prompt = prompt, !.named = model,
                                  !.model = ModelOrDefault(model),
                                  !.modelsToTry = ModelsToTry(ModelOrDefault(model))])

\* a health route that answers { status: 'ok' }
HealthReplyOk == [status |-> 200, keys |-> {"status"}, body |-> <<"ok">>]

\* res.json({ status: 'Server is running' }) of app.get('/api/health')
HealthReply == [status |-> 200, keys |-> {"status"}, body |-> <<"Server is running">>]

\* no reply of /api/health is on its way
NoHealth == [status |-> 0, keys |-> {}, body |-> <<>>]

\* the filter of line 22 on any array
Dedup(arr) == FilterFirst(arr, Len(arr))

\* no list has been given to the filter
NoList == [pc |-> "none", list |-> <<>>, once |-> <<>>, twice |-> <<>>]

(* ------------------------------ the widget ----------------------------- *)

\* const preferredModels = [...]
PreferredModels(w) ==
  IF w = "part_001" THEN <<Mistral, OrcaMini, NeuralChat>> ELSE <<Mistral, OrcaMini>>

\* the prompt template; without imported data the context is the fixed note
Prompt(userMessage) ==
  <<"You are URBANIX AI Assistant, ...", "\n", "\n",
    "Note: User has not yet imported urban data.", "\n", "\n", "User: ">>
    \o userMessage \o <<"\n", "Assistant:">>

Greeting == [sender |-> "bot", text |-> <<"Hello! I'm URBANIX AI Assistant. ...">>]

\* what the user may type
Inputs == {<<" ">>, <<"What reduces emissions?">>}

\* the body of a response before it is read; keys are the fields it has
NoBody == [status |-> 0, keys |-> {}, response |-> <<>>, error |-> <<>>, details |-> <<>>]

\* a generateBotResponse call that is not running
IdleGen ==
  [pc |-> "idle", userMessage |-> <<>>, idx |-> 0, lastErr |-> Null,
   resp |-> NoBody, backend |-> {}, result |-> <<>>]

\* the TypeError of the browser's fetch
FailedToFetch == Error(<<"Failed to fetch">>)

\* body.x of a parsed body: undefined when the field is absent
Field(body, k) == IF k \in body.keys THEN Str(body[k]) ELSE Undefined

\* a || b
Or(a, b) == IF Truthy(a) THEN a ELSE b

\* `Server error: ${resp.status}`
ServerError(status) == Str(<<"Server error: ", ToString(status)>>)

\* the note of part_001, lines 100-102
ClientNote(modelName) ==
  <<"\n", "\n", "_(Note: used smaller local model '">> \o modelName
    \o <<"' due to resource limits.)_">>

\* the catch of generateBotResponse: the error message as guidance
Guidance(w, errorMsg) ==
  IF \E i \in 1..Len(errorMsg) : errorMsg[i] = "Failed to fetch"
    THEN <<"**Server Connection Error** ... npm run server">>
  ELSE IF \E i \in 1..Len(errorMsg) : errorMsg[i] = "Failed to communicate with Ollama"
    THEN <<"**Ollama Not Running** ... ollama serve">>
  ELSE IF w = "part_001"
    THEN <<"**Error**: ">> \o errorMsg
           \o <<"\n", "\n", "Make sure both the chat server and Ollama are running properly.">>
    ELSE <<"**Error**: ">> \o errorMsg

\* return of generateBotResponse
Return(g, text) == [g EXCEPT !.pc = "returned", !.result = text]

\* a loop whose final throw is not caught: the call rejects
ClientLoopHeadThrows(w, g) ==
  IF g.idx < Len(PreferredModels(w))
    THEN [g EXCEPT !.idx = @ + 1, !.pc = "posting", !.resp = NoBody]
    ELSE [g EXCEPT !.pc = "rejected"]

\* the head of `for (const modelName of preferredModels)`: the next fetch is
\* issued, or the loop is left, lastErr thrown and turned into guidance
ClientLoopHead(w, g) ==
  IF g.idx < Len(PreferredModels(w))
    THEN [g EXCEPT !.idx = @ + 1, !.pc = "posting", !.resp = NoBody]
    ELSE Return(g, Guidance(w,
           IF g.lastErr = Null THEN <<"Failed to generate response">>
                               ELSE g.lastErr.message))

\* only the first candidate's error is kept
ClientContinueKeepFirst(w, g, err) ==
  ClientLoopHead(w, [g EXCEPT !.lastErr = IF @ = Null THEN err ELSE @])

\* lastErr = ...; the next iteration
ClientContinue(w, g, err) == ClientLoopHead(w, [g EXCEPT !.lastErr = err])

\* the loop body once the body of the response is known
ClientParsed(w, g, ok, status, body) ==
  LET modelName == PreferredModels(w)[g.idx]
      response == Field(body, "response")
      error == Field(body, "error")
      details == Field(body, "details")
  IN IF w = "part_001"
       THEN IF ~ok
              THEN ClientContinue(w, g, Error(Or(details, ServerError(status)).s))
            ELSE IF Truthy(error)
              THEN ClientContinue(w, g, Error(
                     Or(error, Or(details, Str(<<"Unknown error from chat server">>))).s))
            ELSE IF Truthy(response)
              THEN IF modelName # PreferredModels(w)[1]
                     THEN Return(g, response.s \o ClientNote(modelName))
                     ELSE Return(g, response.s)
            ELSE ClientContinue(w, g, Error(<<"Empty response from AI">>))
       ELSE IF ~ok \/ Truthy(error)
              THEN ClientContinue(w, g, Error(
                     Or(details, Or(error, ServerError(status))).s))
            ELSE IF Truthy(response)
              THEN Return(g, response.s)
            ELSE ClientContinue(w, g, Error(<<"Empty response from AI">>))

(* ------------------------------- actions ------------------------------- *)

\* the proxy alone, serving callers other than the widget
Init ==
  /\ req = [r \in Rids |-> IdleReq]
  /\ widget = "none"
  /\ messages = <<>>
  /\ inputValue = <<>>
  /\ isLoading = FALSE
  /\ gen = [r \in Rids |-> IdleGen]
  /\ health = NoHealth
  /\ dedup = NoList

\* a caller posts { prompt, model } to /api/chat
PostChat(r, prompt, model) ==
  /\ req[r].pc = "idle"
  /\ gen[r].pc = "idle"
  /\ req' = [req EXCEPT ![r] = Accept(prompt, model)]
  /\ UNCHANGED <<cvars, avars>>

\* lastError declared outside the handler: every request sees the assignment
FetchRejectsShared(r) ==
  /\ req[r].pc = "fetch"
  /\ req' = [s \in DOMAIN req |->
               IF s = r THEN Caught(Settle(req[r], "exception"), FetchFailed)
                        ELSE [req[s] EXCEPT !.lastError = FetchFailed]]
  /\ UNCHANGED <<cvars, avars>>

\* await fetch(...) rejects
FetchRejects(r) ==
  /\ req[r].pc = "fetch"
  /\ req' = [req EXCEPT ![r] = Caught(Settle(@, "exception"), FetchFailed)]
  /\ UNCHANGED <<cvars, avars>>

\* await fetch(...) resolves with a response of some status
FetchResolves(r, status) ==
  /\ req[r].pc = "fetch"
  /\ req' = [req EXCEPT ![r] = [@ EXCEPT !.status = status, !.log = <<>>,
                                         !.pc = IF Ok(status) THEN "json" ELSE "text"]]
  /\ UNCHANGED <<cvars, avars>>

\* await response.text() resolves
TextResolves(r, errText) ==
  /\ req[r].pc = "text"
  /\ req' = [req EXCEPT ![r] = BackendError(Settle(@, "error"), errText)]
  /\ UNCHANGED <<cvars, avars>>

\* await response.text() rejects
TextRejects(r) ==
  /\ req[r].pc = "text"
  /\ req' = [req EXCEPT ![r] = Caught(Settle(@, "exception"), BodyFailed)]
  /\ UNCHANGED <<cvars, avars>>

\* await response.json() resolves with { response }
JsonResolves(r, response) ==
  /\ req[r].pc = "json"
  /\ req' = [req EXCEPT ![r] = Parsed([@ EXCEPT !.data = response], response)]
  /\ UNCHANGED <<cvars, avars>>

\* await response.json() rejects
JsonRejects(r) ==
  /\ req[r].pc = "json"
  /\ req' = [req EXCEPT ![r] = Caught(Settle(@, "exception"), JsonFailed)]
  /\ UNCHANGED <<cvars, avars>>

\* the reply has left; the handler's locals are gone
Deliver(r) ==
  /\ req[r].pc = "replied"
  /\ gen[r].pc = "idle"
  /\ req' = [req EXCEPT ![r] = IdleReq]
  /\ UNCHANGED <<cvars, avars>>

Next ==
  \/ \E r \in Rids, prompt \in Prompts, model \in Models : PostChat(r, prompt, model)
  \/ \E r \in Rids : FetchRejects(r)
  \/ \E r \in Rids, status \in Statuses : FetchResolves(r, status)
  \/ \E r \in Rids, errText \in ErrTexts : TextResolves(r, errText)
  \/ \E r \in Rids : TextRejects(r)
  \/ \E r \in Rids, response \in Responses : JsonResolves(r, response)
  \/ \E r \in Rids : JsonRejects(r)
  \/ \E r \in Rids : Deliver(r)

Spec == Init /\ [][Next]_vars

(* ------------- a backend that hangs and a caller that leaves ----------- *)

\* the backend accepts the call of line 28 and never answers it: fetch is
\* given no signal and no timeout, so the await of line 28 never settles
BackendHangs(r) ==
  /\ req[r].pc = "fetch"
  /\ req' = [req EXCEPT ![r].pc = "hung"]
  /\ UNCHANGED <<cvars, avars>>

\* the caller closes its connection while the handler runs; the handler has
\* registered no listener on req or res, so none of its locals change
CallerDisconnects(r) ==
  /\ req[r].pc \in {"fetch", "text", "json"}
  /\ ~req[r].closed
  /\ req' = [req EXCEPT ![r].closed = TRUE]
  /\ UNCHANGED <<cvars, avars>>

\* the handler of slot r resumes after an await the backend has settled
HandlerStep(r) ==
  \/ FetchRejects(r)
  \/ \E status \in Statuses : FetchResolves(r, status)
  \/ \E errText \in ErrTexts : TextResolves(r, errText)
  \/ TextRejects(r)
  \/ \E response \in Responses : JsonResolves(r, response)
  \/ JsonRejects(r)

FaultNext ==
  \/ \E r \in Rids, prompt \in Prompts, model \in Models : PostChat(r, prompt, model)
  \/ \E r \in Rids : FetchRejects(r)
  \/ \E r \in Rids, status \in Statuses : FetchResolves(r, status)
  \/ \E r \in Rids, errText \in ErrTexts : TextResolves(r, errText)
  \/ \E r \in Rids : TextRejects(r)
  \/ \E r \in Rids, response \in Responses : JsonResolves(r, response)
  \/ \E r \in Rids : JsonRejects(r)
  \/ \E r \in Rids : Deliver(r)
  \/ \E r \in Rids : BackendHangs(r)
  \/ \E r \in Rids : CallerDisconnects(r)

\* the event loop runs every continuation whose promise has settled, and a
\* backend call that does not hang is settled: the handler's steps are
\* weakly fair, the callers' and the faults' are not
FaultSpec ==
  Init /\ [][FaultNext]_vars /\ \A r \in Rids : WF_vars(HandlerStep(r))

(* --------------------- the widget and the proxy together --------------- *)

\* the backend while the widget is the caller: it is reachable and answers
\* every call with a non-OK status and its text, an empty text or a text
WidgetStatuses == {200, 500}
WidgetResponses == {Str(<<>>), Str(<<" ", "hello", "\n">>)}

ClientInit ==
  /\ req = [r \in Rids |-> IdleReq]
  /\ widget \in {"part_001", "part_002"}
  /\ messages = <<Greeting>>
  /\ inputValue = <<>>
  /\ isLoading = FALSE
  /\ gen = [r \in Rids |-> IdleGen]
  /\ health = NoHealth
  /\ dedup = NoList

UserMessages == {i \in 1..Len(messages) : messages[i].sender = "user"}

\* the textarea is disabled while loading in part_002 only
TextareaEnabled == widget = "part_001" \/ ~isLoading

\* onChange of the textarea
Type(v) ==
  /\ TextareaEnabled
  /\ inputValue # v
  /\ inputValue' = v
  /\ UNCHANGED <<req, widget, messages, isLoading, gen, avars>>

\* handleSendMessage up to the first await of generateBotResponse, for a
\* user who sends at most cap messages
HandleSendMessageUpTo(c, cap) ==
  IF Trim(inputValue) = <<>>
    THEN UNCHANGED vars
    ELSE /\ gen[c].pc = "idle"
         /\ \A d \in 1..(c - 1) : gen[d].pc # "idle"
         /\ Cardinality(UserMessages) < cap
         /\ messages' = Append(messages, [sender |-> "user", text |-> inputValue])
         /\ inputValue' = <<>>
         /\ isLoading' = TRUE
         /\ gen' = [gen EXCEPT ![c] =
                      ClientLoopHead(widget, [IdleGen EXCEPT !.userMessage = inputValue])]
         /\ UNCHANGED <<req, widget, avars>>

HandleSendMessage(c) == HandleSendMessageUpTo(c, MaxMsgs)

\* onClick of the send button, disabled={isLoading || !inputValue.trim()}
ClickSendUpTo(c, cap) ==
  /\ ~(isLoading \/ Trim(inputValue) = <<>>)
  /\ HandleSendMessageUpTo(c, cap)

ClickSend(c) == ClickSendUpTo(c, MaxMsgs)

\* Enter in the textarea: handleKeyPress / handleKeyDown
PressEnterUpTo(c, cap) ==
  /\ TextareaEnabled
  /\ HandleSendMessageUpTo(c, cap)

PressEnter(c) == PressEnterUpTo(c, MaxMsgs)

\* generateBotResponse goes on after an await: it is at the next await, or it
\* has returned and handleSendMessage appends the bot message
Resume(c, g) ==
  IF g.pc = "returned"
    THEN /\ messages' = Append(messages, [sender |-> "bot", text |-> g.result])
         /\ isLoading' = FALSE
         /\ gen' = [gen EXCEPT ![c] = IdleGen]
         /\ UNCHANGED <<widget, inputValue, avars>>
    ELSE /\ gen' = [gen EXCEPT ![c] = g]
         /\ UNCHANGED <<widget, messages, inputValue, isLoading, avars>>

\* the proxy receives the widget's POST /api/chat
ProxyReceives(c) ==
  /\ gen[c].pc = "posting"
  /\ req[c].pc = "idle"
  /\ req' = [req EXCEPT ![c] =
               Accept(Str(Prompt(gen[c].userMessage)),
                      Str(PreferredModels(widget)[gen[c].idx]))]
  /\ gen' = [gen EXCEPT ![c].pc = "waiting"]
  /\ UNCHANGED <<widget, messages, inputValue, isLoading, avars>>

\* the widget's fetch rejects: the proxy is not reachable
ClientFetchRejects(c) ==
  /\ gen[c].pc = "posting"
  /\ Resume(c, ClientContinue(widget, gen[c], FailedToFetch))
  /\ UNCHANGED req

\* the widget's fetch has resolved with the proxy's reply: the handler
\* invocation is over and the calls it made are in the backend's record
Received(c) ==
  [gen[c] EXCEPT !.resp = req[c].replies[1],
                 !.backend = @ \cup {req[c].calls[i].model :
                                        i \in 1..Len(req[c].calls)}]

\* the widget's fetch resolves with the proxy's reply and resp.json() resolves
ClientJsonResolves(c) ==
  /\ gen[c].pc = "waiting"
  /\ req[c].pc = "replied"
  /\ Resume(c, ClientParsed(widget, Received(c), Ok(req[c].replies[1].status),
                            req[c].replies[1].status, req[c].replies[1]))
  /\ req' = [req EXCEPT ![c] = IdleReq]

\* the widget's fetch resolves and resp.json() rejects: .catch(() => ({}))
ClientJsonRejects(c) ==
  /\ gen[c].pc = "waiting"
  /\ req[c].pc = "replied"
  /\ Resume(c, ClientParsed(widget, Received(c), Ok(req[c].replies[1].status),
                            req[c].replies[1].status, NoBody))
  /\ req' = [req EXCEPT ![c] = IdleReq]

ClientNext ==
  \/ \E v \in Inputs : Type(v)
  \/ \E c \in Rids : ClickSend(c)
  \/ \E c \in Rids : PressEnter(c)
  \/ \E c \in Rids : ProxyReceives(c)
  \/ \E c \in Rids : ClientFetchRejects(c)
  \/ \E c \in Rids : ClientJsonResolves(c)
  \/ \E c \in Rids : ClientJsonRejects(c)
  \/ \E r \in Rids, status \in WidgetStatuses : FetchResolves(r, status)
  \/ \E r \in Rids, errText \in ErrTexts : TextResolves(r, errText)
  \/ \E r \in Rids, response \in WidgetResponses : JsonResolves(r, response)

ClientSpec == ClientInit /\ [][ClientNext]_vars

\* a step of the widget's call c: its fetch settles, or the body of the
\* proxy's reply is read
WidgetStep(c) ==
  \/ ProxyReceives(c)
  \/ ClientFetchRejects(c)
  \/ ClientJsonResolves(c)
  \/ ClientJsonRejects(c)

\* a step of the proxy's handler for the widget's call c
ProxyStep(c) ==
  \/ \E status \in WidgetStatuses : FetchResolves(c, status)
  \/ \E errText \in ErrTexts : TextResolves(c, errText)
  \/ \E response \in WidgetResponses : JsonResolves(c, response)

\* a user who presses Enter only when no answer is awaited
PatientEnter(c) ==
  /\ ~isLoading
  /\ PressEnter(c)

\* the widget and the proxy with a user who sends one message at a time
LiveNext ==
  \/ \E v \in Inputs : Type(v)
  \/ \E c \in Rids : ClickSend(c)
  \/ \E c \in Rids : PatientEnter(c)
  \/ \E c \in Rids : ProxyReceives(c)
  \/ \E c \in Rids : ClientFetchRejects(c)
  \/ \E c \in Rids : ClientJsonResolves(c)
  \/ \E c \in Rids : ClientJsonRejects(c)
  \/ \E r \in Rids, status \in WidgetStatuses : FetchResolves(r, status)
  \/ \E r \in Rids, errText \in ErrTexts : TextResolves(r, errText)
  \/ \E r \in Rids, response \in WidgetResponses : JsonResolves(r, response)

\* every fetch of the widget and of the proxy settles in one of the ways
\* above and the event loop runs the continuation: the steps of a call in
\* flight are weakly fair, the user's typing and sending are not
ClientLiveSpec ==
  ClientInit /\ [][LiveNext]_vars
    /\ \A c \in Rids : WF_vars(WidgetStep(c) \/ ProxyStep(c))

(* --------------------------- the health route -------------------------- *)

\* GET /api/health: the handler of lines 81-83 replies at once
GetHealth ==
  /\ health' = HealthReply
  /\ UNCHANGED <<req, cvars, dedup>>

\* the reply of /api/health has left
HealthDelivered ==
  /\ health # NoHealth
  /\ health' = NoHealth
  /\ UNCHANGED <<req, cvars, dedup>>

HealthNext ==
  \/ \E r \in Rids, prompt \in Prompts, model \in Models : PostChat(r, prompt, model)
  \/ \E r \in Rids : FetchRejects(r)
  \/ \E r \in Rids, status \in Statuses : FetchResolves(r, status)
  \/ \E r \in Rids, errText \in ErrTexts : TextResolves(r, errText)
  \/ \E r \in Rids : TextRejects(r)
  \/ \E r \in Rids, response \in Responses : JsonResolves(r, response)
  \/ \E r \in Rids : JsonRejects(r)
  \/ \E r \in Rids : Deliver(r)
  \/ GetHealth
  \/ HealthDelivered

HealthSpec == Init /\ [][HealthNext]_vars

(* ------------------------ the filter on its own ------------------------ *)

\* the model names of the code
ModelIds == {DefaultModel, OrcaMini, Mistral, NeuralChat}

\* arrays of at most n model names
Lists(n) == UNION {[1..k -> ModelIds] : k \in 0..n}

DedupInit ==
  /\ req = [r \in Rids |-> IdleReq]
  /\ widget = "none"
  /\ messages = <<>>
  /\ inputValue = <<>>
  /\ isLoading = FALSE
  /\ gen = [r \in Rids |-> IdleGen]
  /\ health = NoHealth
  /\ dedup \in {[NoList EXCEPT !.pc = "given", !.list = L] : L \in Lists(MaxLen)}

\* the filter is applied to the list
FilterOnce ==
  /\ dedup.pc = "given"
  /\ dedup' = [dedup EXCEPT !.pc = "once", !.once = Dedup(dedup.list)]
  /\ UNCHANGED <<req, cvars, health>>

\* the filter is applied to its own result
FilterTwice ==
  /\ dedup.pc = "once"
  /\ dedup' = [dedup EXCEPT !.pc = "twice", !.twice = Dedup(dedup.once)]
  /\ UNCHANGED <<req, cvars, health>>

DedupNext == FilterOnce \/ FilterTwice

DedupSpec == DedupInit /\ [][DedupNext]_vars

(* -------------------- requests handled concurrently -------------------- *)

PairRids == 1..MaxPair

\* callers that post an empty or a real prompt for one of two models
PairPrompts == {Str(<<>>), Str(<<"What reduces emissions?">>)}
PairModels == {Str(Mistral), Str(OrcaMini)}

PairInit ==
  /\ req = [r \in PairRids |-> IdleReq]
  /\ widget = "none"
  /\ messages = <<>>
  /\ inputValue = <<>>
  /\ isLoading = FALSE
  /\ gen = [r \in PairRids |-> IdleGen]
  /\ health = NoHealth
  /\ dedup = NoList

\* the handler invocations interleave at their awaits
PairNext ==
  \/ \E r \in PairRids, prompt \in PairPrompts, model \in PairModels :
        PostChat(r, prompt, model)
  \/ \E r \in PairRids : FetchRejects(r)
  \/ \E r \in PairRids, status \in WidgetStatuses : FetchResolves(r, status)
  \/ \E r \in PairRids, errText \in ErrTexts : TextResolves(r, errText)
  \/ \E r \in PairRids, response \in WidgetResponses : JsonResolves(r, response)
  \/ \E r \in PairRids : Deliver(r)

PairSpec == PairInit /\ [][PairNext]_vars

(* ------------- a message sent while another is being answered --------- *)

RaceRids == 1..MaxRace

RaceInit ==
  /\ req = [r \in RaceRids |-> IdleReq]
  /\ widget \in {"part_001", "part_002"}
  /\ messages = <<Greeting>>
  /\ inputValue = <<>>
  /\ isLoading = FALSE
  /\ gen = [r \in RaceRids |-> IdleGen]
  /\ health = NoHealth
  /\ dedup = NoList

\* the widget with a proxy and a backend that answer every call with a text
RaceNext ==
  \/ \E v \in Inputs : Type(v)
  \/ \E c \in RaceRids : ClickSendUpTo(c, MaxRace)
  \/ \E c \in RaceRids : PressEnterUpTo(c, MaxRace)
  \/ \E c \in RaceRids : ProxyReceives(c)
  \/ \E c \in RaceRids : ClientJsonResolves(c)
  \/ \E r \in RaceRids : FetchResolves(r, 200)
  \/ \E r \in RaceRids : JsonResolves(r, Str(<<" ", "hello", "\n">>))

RaceSpec == RaceInit /\ [][RaceNext]_vars

(* ------------------------- vocabulary of the claims -------------------- *)

Failures == {"error", "exception", "empty"}

\* String.prototype.includes on token sequences
Includes(s, p) ==
  \E i \in 0..(Len(s) - Len(p)) : SubSeq(s, i + 1, i + Len(p)) = p

\* the request of slot r is being handled or has been answered
Active(r) == req[r].pc # "idle"
Replied(r) == req[r].pc = "replied"
\* the handler got past the validation of line 16
Started(r) == Active(r) /\ req[r].modelsToTry # <<>>
RepliedWith(r, status) ==
  /\ Replied(r)
  /\ \E i \in 1..Len(req[r].replies) : req[r].replies[i].status = status

\* the candidate whose call ended in a success
Serving(r) == req[r].calls[Len(req[r].calls)].model

\* the text carries a fallback annotation / one that names model m
HasNote(text) == \E i \in 1..Len(text) : text[i] = "_(Used fallback model '"
HasNoteNaming(text, m) == Includes(text, <<"_(Used fallback model '">> \o m)

\* a response text that is missing, empty or only whitespace
Blank(v) ==
  \/ v.t = "undefined"
  \/ v.t = "string" /\ \A i \in 1..Len(v.s) : v.s[i] \in {" ", "\n"}

\* the handler of slot r takes a step
Steps(r) == req'[r] # req[r]

\* after the failure of the running candidate the loop is at the next
\* candidate, or the request is answered 500 when there is none
Advanced(r) ==
  IF req[r].idx < Len(req[r].modelsToTry)
    THEN /\ req'[r].pc = "fetch"
         /\ req'[r].idx = req[r].idx + 1
         /\ req'[r].replies = <<>>
         /\ req'[r].calls = Append(
               [req[r].calls EXCEPT ![req[r].idx].outcome = req'[r].calls[req[r].idx].outcome],
               [model |-> req[r].modelsToTry[req[r].idx + 1], outcome |-> "pending"])
    ELSE /\ req'[r].pc = "replied"
         /\ Len(req'[r].replies) = 1
         /\ req'[r].replies[1].status = 500

(* -------------------------------- claims ------------------------------- *)

\* C1: the calls of a request follow the effective list in order, every
\* call but the last has ended in a backend error, an exception or an empty
\* response, and so no call follows a successful one.
C1_AttemptsInOrder ==
  \A r \in Rids :
    Started(r) =>
      /\ Len(req[r].calls) <= Len(req[r].modelsToTry)
      /\ \A i \in 1..Len(req[r].calls) :
            /\ req[r].calls[i].model = req[r].modelsToTry[i]
            /\ i < Len(req[r].calls) => req[r].calls[i].outcome \in Failures
      /\ RepliedWith(r, 200) => req[r].calls[Len(req[r].calls)].outcome = "success"

\* A fails, B succeeds, C is never attempted
C1_Witness ==
  \E r \in Rids :
    /\ RepliedWith(r, 200)
    /\ Len(req[r].modelsToTry) = 3
    /\ Len(req[r].calls) = 2
    /\ req[r].calls[1].outcome \in Failures
    /\ req[r].calls[2].outcome = "success"

\* C2: the effective list is [model, 'orca-mini', 'mistral'] without
\* duplicates: no element twice, none lost, first occurrences in order.
C2_DedupPreservesOrder ==
  \A r \in Rids :
    Started(r) =>
      LET input == <<req[r].model, <<"orca-mini">>, <<"mistral">>>>
          list == req[r].modelsToTry
          First(m) == CHOOSE i \in 1..3 :
                        input[i] = m /\ \A j \in 1..(i - 1) : input[j] # m
      IN /\ \A i, j \in 1..Len(list) : i # j => list[i] # list[j]
         /\ {list[i] : i \in 1..Len(list)} = {input[i] : i \in 1..3}
         /\ \A i, j \in 1..Len(list) : i < j => First(list[i]) < First(list[j])

\* [A, B, A] becomes [A, B]
C2_Witness ==
  \E r \in Rids :
    /\ Started(r)
    /\ req[r].model = <<"mistral">>
    /\ req[r].modelsToTry = <<<<"mistral">>, <<"orca-mini">>>>

\* C3 as stated: a primary's text carries no annotation, any other
\* candidate's text carries one naming it.
C3_AnnotationOnEveryFallback ==
  \A r \in Rids :
    RepliedWith(r, 200) =>
      LET text == req[r].replies[1].response IN
      IF Serving(r) = req[r].model
        THEN ~HasNote(text)
        ELSE HasNoteNaming(text, Serving(r))

\* C3 as amended: a primary's text carries no annotation, the text of a
\* fallback other than 'mistral' carries one naming it.
C3_AnnotationOnFallback ==
  \A r \in Rids :
    RepliedWith(r, 200) =>
      LET text == req[r].replies[1].response IN
      /\ Serving(r) = req[r].model => ~HasNote(text)
      /\ Serving(r) # req[r].model /\ Serving(r) # <<"mistral">>
           => HasNoteNaming(text, Serving(r))

\* 'orca-mini' serves a request for another model
C3_Witness ==
  \E r \in Rids :
    /\ RepliedWith(r, 200)
    /\ Serving(r) = <<"orca-mini">>
    /\ req[r].model = <<"neural-chat">>
    /\ HasNoteNaming(req[r].replies[1].response, <<"orca-mini">>)

\* C4: a 2xx answer whose response text is missing, empty or whitespace
\* gives no 200 reply and the loop goes to the next candidate, if any.
C4_EmptyTriggersFallback ==
  [][\A r \in Rids :
       (req[r].pc = "json" /\ Steps(r) /\ Blank(req'[r].data))
         => /\ Advanced(r)
            /\ req'[r].calls[req[r].idx].outcome \in Failures]_vars

\* a whitespace answer of the first candidate, the second one being tried
C4_Witness ==
  \E r \in Rids :
    /\ req[r].pc = "fetch"
    /\ Len(req[r].calls) = 2
    /\ req[r].calls[1].outcome = "empty"
    /\ req[r].lastError.message = <<"Empty response from model">>

\* the failure a step of the handler records for the running candidate
StepFailures(r) ==
  IF req[r].pc = "fetch"
    THEN {<<"request to http://localhost:11434/api/generate failed">>}
  ELSE IF req[r].pc = "text"
    THEN {<<"Premature close">>}
         \cup {<<"Ollama error: ", ToString(req[r].status), " - ">> \o t : t \in ErrTexts}
  ELSE {<<"invalid json response body">>,
        <<"data.response?.trim is not a function">>,
        <<"Empty response from model">>}

\* C5: when the last candidate fails, the 500 reply's details are the
\* failure of that candidate.
C5_LastFailureReported ==
  [][\A r \in Rids :
       (Started(r) /\ ~Replied(r) /\ RepliedWith(r, 500)')
         => /\ req[r].idx = Len(req[r].modelsToTry)
            /\ req'[r].replies[1].details \in StepFailures(r)
            /\ req'[r].replies[1].keys = {"error", "details"}]_vars

\* the first candidate ended in a backend error, the last in an empty answer
C5_Witness ==
  \E r \in Rids :
    /\ RepliedWith(r, 500)
    /\ req[r].calls[1].outcome = "error"
    /\ req[r].calls[Len(req[r].calls)].outcome = "empty"
    /\ req[r].replies[1].details = <<"Empty response from model">>

\* C6: a missing or empty prompt is answered 400 'Prompt is required'
\* and no backend call is made.
C6_ValidationShortCircuit ==
  \A r \in Rids :
    (Active(r) /\ (req[r].prompt.t = "undefined" \/ req[r].prompt = Str(<<>>)))
      => /\ Replied(r)
         /\ Len(req[r].replies) = 1
         /\ req[r].replies[1].status = 400
         /\ req[r].replies[1].keys = {"error"}
         /\ req[r].replies[1].error = <<"Prompt is required">>
         /\ req[r].calls = <<>>

\* the empty-string prompt answered
C6_Witness ==
  \E r \in Rids :
    /\ Replied(r)
    /\ req[r].prompt = Str(<<>>)
    /\ req[r].replies[1].status = 400

\* C7: an exception of the call or of the body read is recorded as the
\* candidate's failure and the loop advances.
C7_ExceptionAdvances ==
  [][\A r \in Rids :
       (Started(r) /\ ~Replied(r) /\ Steps(r)
          /\ req'[r].calls[req[r].idx].outcome = "exception")
         => /\ Advanced(r)
            /\ req'[r].lastError.t = "error"
            /\ req'[r].lastError.message \in StepFailures(r)]_vars

\* the first candidate threw, the second is being tried
C7_Witness ==
  \E r \in Rids :
    /\ req[r].pc = "fetch"
    /\ Len(req[r].calls) = 2
    /\ req[r].calls[1].outcome = "exception"

\* C8: a 500/502 reply to a valid prompt comes only after every candidate
\* of the effective list was attempted and failed.
C8_FailureOnlyOnExhaustion ==
  \A r \in Rids :
    (Started(r) /\ (RepliedWith(r, 500) \/ RepliedWith(r, 502)))
      => /\ Len(req[r].calls) = Len(req[r].modelsToTry)
         /\ \A i \in 1..Len(req[r].modelsToTry) :
               /\ req[r].calls[i].model = req[r].modelsToTry[i]
               /\ req[r].calls[i].outcome \in Failures

\* three candidates, three failures
C8_Witness ==
  \E r \in Rids :
    /\ RepliedWith(r, 500)
    /\ Len(req[r].calls) = 3
    /\ \A i \in 1..3 : req[r].calls[i].outcome \in Failures

\* C9: while one user message is handled, no model is sent to the backend
\* twice: not within one request to the proxy, and not by a later request
\* after an earlier one has sent it.
C9_NoModelSentTwice ==
  \A c \in Rids :
    gen[c].pc # "idle" =>
      /\ \A i, j \in 1..Len(req[c].calls) :
            i # j => req[c].calls[i].model # req[c].calls[j].model
      /\ \A i \in 1..Len(req[c].calls) : req[c].calls[i].model \notin gen[c].backend

\* C10: at most one backend call of a request is in flight, and it is the
\* latest one.
C10_Sequential ==
  \A r \in Rids :
    \A i \in 1..Len(req[r].calls) :
      req[r].calls[i].outcome = "pending"
        => /\ i = Len(req[r].calls)
           /\ req[r].pc \in {"fetch", "text", "json"}

\* the second call in flight, the first one completed
C10_Witness ==
  \E r \in Rids :
    /\ Len(req[r].calls) = 2
    /\ req[r].calls[1].outcome # "pending"
    /\ req[r].calls[2].outcome = "pending"

\* C11: every backend attempt is bounded by a timeout, so a call the backend
\* never answers is eventually counted as a failure, the loop advances, and
\* every request the handler has taken on is eventually replied to
C11_EveryRequestEnds ==
  \A r \in Rids :
    /\ (req[r].pc = "hung") ~> (Replied(r) \/ Len(req[r].calls) > 1)
    /\ Active(r) ~> Replied(r)

\* C12: once the caller has disconnected, the handler issues no backend call
\* beyond the one in flight
C12_NoAttemptAfterDisconnect ==
  [][\A r \in Rids :
       req[r].closed => Len(req'[r].calls) <= Len(req[r].calls)]_vars

\* what the request's own model and the endings of its own backend calls make
\* of the candidate list, the last error and the annotation
OwnList(model) ==
  IF model = <<"mistral">> THEN <<model, <<"orca-mini">>>>
  ELSE IF model = <<"orca-mini">> THEN <<model, <<"mistral">>>>
  ELSE <<model, <<"orca-mini">>, <<"mistral">>>>

OwnError(calls) ==
  LET failed == {i \in 1..Len(calls) : calls[i].outcome \in Failures}
      last == CHOOSE i \in failed : \A j \in failed : j <= i
  IN IF failed = {} THEN <<>>
     ELSE IF calls[last].outcome = "exception"
       THEN <<"request to http://localhost:11434/api/generate failed">>
     ELSE IF calls[last].outcome = "error"
       THEN <<"Ollama error: ", "500", " - ", "model not found">>
     ELSE <<"Empty response from model">>

OwnNote(modelName, model) ==
  IF modelName = model \/ modelName = <<"mistral">> THEN <<>>
  ELSE <<"\n", "\n", "_(Used fallback model '">> \o modelName \o <<"' - ">>
         \o model \o <<" not available)_">>

OwnInputsDecide(r) ==
  LET st == req[r]
  IN /\ Started(r) => st.modelsToTry = OwnList(st.model)
     /\ st.lastError.message = OwnError(st.calls)
     /\ Replied(r) =>
          /\ Len(st.replies) = 1
          /\ IF st.prompt.s = <<>>
               THEN st.replies[1].status = 400 /\ st.calls = <<>>
             ELSE IF st.calls[Len(st.calls)].outcome = "success"
               THEN /\ st.replies[1].status = 200
                    /\ st.replies[1].response = <<"hello">> \o OwnNote(Serving(r), st.model)
             ELSE /\ st.replies[1].status = 500
                  /\ st.replies[1].details = OwnError(st.calls)

\* C13: requests handled concurrently share no mutable state: a step of one
\* handler leaves every other request untouched, and each request's candidate
\* list, last error and reply are what its own prompt, its own model and the
\* backend's answers to its own calls determine
C13_NoSharedState ==
  /\ [](\A r \in PairRids : OwnInputsDecide(r))
  /\ [][\A r, s \in PairRids :
          (r # s /\ req'[r] # req[r]) => req'[s] = req[s]]_vars

\* two requests are in their loops at once, for different models, and only
\* one of them has seen a call fail
C13_Witness ==
  \E r, s \in PairRids :
    /\ r # s
    /\ req[r].pc = "fetch" /\ req[s].pc = "fetch"
    /\ req[r].model # req[s].model
    /\ req[r].lastError # Null /\ req[s].lastError = Null

\* C14: a reply of status 200 has the fields usedFallback and servingModel;
\* usedFallback is true exactly when the serving model is not the requested
\* one, and servingModel is the candidate whose call succeeded
C14_CompletionCarriesServingModel ==
  \A r \in Rids :
    RepliedWith(r, 200) =>
      /\ {"response", "usedFallback", "servingModel"} \subseteq req[r].replies[1].keys
      /\ req[r].replies[1].usedFallback = (Serving(r) # req[r].model)
      /\ req[r].replies[1].servingModel = Serving(r)

\* a text without the whitespace at its two ends
Stripped(s) ==
  LET ink == {i \in 1..Len(s) : s[i] \notin {" ", "\n"}}
  IN IF ink = {} THEN <<>>
     ELSE SubSeq(s, CHOOSE i \in ink : \A j \in ink : i <= j,
                    CHOOSE i \in ink : \A j \in ink : j <= i)

\* the primary has failed and a later candidate has answered with a text
FallbackServed(r) == RepliedWith(r, 200) /\ Len(req[r].calls) > 1

\* C15 as stated: when the primary fails and fallback M2 returns T, the reply
\* text is the trimmed T followed by "\n\n_(Used fallback model 'M2')_"
C15_NoteNamesServingModelOnly ==
  \A r \in Rids :
    FallbackServed(r) =>
      req[r].replies[1].response =
        Stripped(req[r].data.s)
          \o <<"\n", "\n", "_(Used fallback model '">> \o Serving(r) \o <<"')_">>

\* C15: when the primary M1 fails and fallback M2 returns T, the reply text is
\* the trimmed T followed by "\n\n_(Used fallback model 'M2' - M1 not
\* available)_" and nothing else, and the trimmed T alone when M2 is mistral
C15_FallbackTextExact ==
  \A r \in Rids :
    FallbackServed(r) =>
      req[r].replies[1].response =
        IF Serving(r) = <<"mistral">>
          THEN Stripped(req[r].data.s)
          ELSE Stripped(req[r].data.s)
                 \o <<"\n", "\n", "_(Used fallback model '">> \o Serving(r)
                 \o <<"' - ">> \o req[r].model \o <<" not available)_">>

\* the primary failed and orca-mini answered a text with whitespace around it
C15_Witness ==
  \E r \in Rids :
    /\ FallbackServed(r)
    /\ Serving(r) = <<"orca-mini">>
    /\ req[r].model # <<"orca-mini">>
    /\ req[r].data.s # Stripped(req[r].data.s)
    /\ Len(req[r].replies[1].response) > Len(Stripped(req[r].data.s))

\* the texts the proxy puts in `details` when it reports exhaustion
RawDetails ==
  {<<"Ollama error: ", "500", " - ", "model not found">>,
   <<"Empty response from model">>}

\* C16: when the proxy reports exhaustion (500, error 'Failed to communicate
\* with Ollama', details) the widget shows its 'Ollama Not Running' guidance:
\* no bot message of the transcript contains the proxy's raw details
C16_ExhaustionShowsGuidance ==
  \A i \in 1..Len(messages) :
    messages[i].sender = "bot" =>
      \A d \in RawDetails : ~Includes(messages[i].text, d)

\* the widget's call c ends on a 200 reply whose text it surfaces
SurfacesReply(c) ==
  /\ gen[c].pc = "waiting"
  /\ RepliedWith(c, 200)
  /\ Len(messages') = Len(messages) + 1
  /\ Len(messages'[Len(messages')].text) >= Len(req[c].replies[1].response)
  /\ SubSeq(messages'[Len(messages')].text, 1, Len(req[c].replies[1].response))
       = req[c].replies[1].response

\* C17: the widget shows the text of its first candidate that succeeds and
\* appends a fallback annotation naming the candidate exactly when that
\* candidate is not the first entry of its preference list
C17_ClientAnnotation ==
  [][\A c \in Rids :
       SurfacesReply(c) =>
         messages'[Len(messages')].text =
           IF gen[c].idx = 1
             THEN req[c].replies[1].response
             ELSE req[c].replies[1].response
                    \o <<"\n", "\n", "_(Note: used smaller local model '">>
                    \o PreferredModels(widget)[gen[c].idx]
                    \o <<"' due to resource limits.)_">>]_vars

\* a step in which a reply of the health route is sent
HealthReplies == health' # health /\ health' # NoHealth

\* C18 as stated: the health route replies { status: "ok" } in every state
\* and changes nothing else
C18_HealthRepliesOk ==
  /\ [](ENABLED GetHealth)
  /\ [][HealthReplies =>
          /\ health'.status = 200 /\ health'.body = <<"ok">>
          /\ UNCHANGED <<req, cvars, dedup>>]_vars

\* C18: GET /api/health replies 200 { status: 'Server is running' } in every
\* state and has no side effect: no request's state changes, no backend call
\* is made, the widget's state is untouched
C18_HealthNoSideEffects ==
  /\ [](ENABLED GetHealth)
  /\ [][HealthReplies =>
          /\ health'.status = 200 /\ health'.keys = {"status"}
          /\ health'.body = <<"Server is running">>
          /\ \A r \in Rids : req'[r] = req[r]
          /\ UNCHANGED <<cvars, dedup>>]_vars

\* the health route has answered while a request waits for the backend
C18_Witness ==
  /\ health # NoHealth
  /\ \E r \in Rids : req[r].pc = "json" /\ Len(req[r].calls) > 1

\* C19: the filter is idempotent: applied to its own result it returns that
\* result, for every list of model names
C19_DedupIdempotent ==
  dedup.pc = "twice" => dedup.twice = dedup.once

\* the filter has been applied twice to a list with a name three times in it
C19_Witness ==
  /\ dedup.pc = "twice"
  /\ Len(dedup.list) = 3
  /\ Len(dedup.once) = 1

\* C20: the proxy appends its fallback note exactly when the serving model is
\* neither the requested model nor 'mistral'; a text served by the requested
\* model or by mistral as a fallback is returned as the trimmed text alone
C20_NoteUnlessPrimaryOrMistral ==
  \A r \in Rids :
    RepliedWith(r, 200) =>
      /\ HasNote(req[r].replies[1].response)
           <=> (Serving(r) # req[r].model /\ Serving(r) # <<"mistral">>)
      /\ (Serving(r) = req[r].model \/ Serving(r) = <<"mistral">>)
           => req[r].replies[1].response = Stripped(req[r].data.s)

\* mistral has served as the last fallback of another model's request
C20_Witness ==
  \E r \in Rids :
    /\ RepliedWith(r, 200)
    /\ Len(req[r].calls) = 3
    /\ Serving(r) = <<"mistral">>
    /\ ~HasNote(req[r].replies[1].response)

\* C21: for every request that passes validation the candidate list is not
\* empty and its first element is the primary model: the model the request
\* names, or 'tinyllama' when it names none
C21_PrimaryFirst ==
  \A r \in Rids :
    (Active(r) /\ ~RepliedWith(r, 400)) =>
      /\ Len(req[r].modelsToTry) >= 1
      /\ req[r].modelsToTry[1] =
           IF req[r].named.t = "undefined" THEN <<"tinyllama">> ELSE req[r].named.s
      /\ req[r].calls[1].model = req[r].modelsToTry[1]

\* a request that names no model has had 'tinyllama' called first
C21_Witness ==
  \E r \in Rids :
    /\ req[r].named.t = "undefined"
    /\ Len(req[r].calls) > 1
    /\ req[r].calls[1].model = <<"tinyllama">>

\* C22: every 200 reply carries a response that is not empty and that
\* begins with the serving candidate's backend text without its leading and
\* trailing whitespace; what follows that text is nothing or the note
C22_TrimmedTextReturned ==
  \A r \in Rids :
    RepliedWith(r, 200) =>
      LET text == req[r].replies[1].response
          body == Stripped(req[r].data.s)
      IN /\ text # <<>>
         /\ req[r].data.t = "string"
         /\ body # <<>>
         /\ Len(text) >= Len(body)
         /\ SubSeq(text, 1, Len(body)) = body
         /\ \/ Len(text) = Len(body)
            \/ SubSeq(text, Len(body) + 1, Len(body) + 3)
                 = <<"\n", "\n", "_(Used fallback model '">>

\* a backend text with whitespace around it has been returned under a note
C22_Witness ==
  \E r \in Rids :
    /\ RepliedWith(r, 200)
    /\ req[r].data.s = <<" ", "hello", "\n">>
    /\ req[r].replies[1].response[1] = "hello"
    /\ Len(req[r].replies[1].response) > 1

\* the kind of log line that records how a call ended
OutcomeLine(outcome) ==
  CASE outcome = "error" -> "failed"
    [] outcome = "exception" -> "exception"
    [] outcome = "empty" -> "empty"
    [] OTHER -> "success"

\* C23: every attempt is logged with its model and its outcome: the step in
\* which a call ends in a backend error, an exception, an empty response or
\* a success writes a log line of that outcome for that model
C23_EveryOutcomeLogged ==
  [][\A r \in Rids : \A k \in 1..Len(req[r].calls) :
       (/\ req[r].calls[k].outcome = "pending"
        /\ k <= Len(req'[r].calls)
        /\ req'[r].calls[k].outcome # "pending")
       => \E i \in 1..Len(req'[r].log) :
            /\ req'[r].log[i].model = req[r].calls[k].model
            /\ req'[r].log[i].kind = OutcomeLine(req'[r].calls[k].outcome)]_vars

\* the reply is one of the three the handler sends, for the case it is for
ReplyShape(r, reply) ==
  \/ /\ reply.status = 400
     /\ reply.keys = {"error"}
     /\ reply.error = <<"Prompt is required">>
     /\ req[r].calls = <<>>
  \/ /\ reply.status = 200
     /\ reply.keys = {"response"}
     /\ req[r].calls[Len(req[r].calls)].outcome = "success"
  \/ /\ reply.status = 500
     /\ reply.keys = {"error", "details"}
     /\ reply.error = <<"Failed to communicate with Ollama">>
     /\ Len(req[r].calls) = Len(req[r].modelsToTry)
     /\ \A i \in 1..Len(req[r].calls) : req[r].calls[i].outcome \in Failures

\* C24: a request gets one reply and no second one: none while its handler
\* runs, exactly one once the handler has ended, and that reply is 400 for an
\* invalid prompt, 200 {response} after a success or 500 {error, details}
\* after the failure of all candidates; a handler that has not replied is
\* at an await whose settling lets it go on
C24_ExactlyOneReply ==
  \A r \in Rids :
    /\ Len(req[r].replies) = IF Replied(r) THEN 1 ELSE 0
    /\ Replied(r) => ReplyShape(r, req[r].replies[1])
    /\ (Active(r) /\ ~Replied(r)) => ENABLED HandlerStep(r)

\* all three candidates have failed and the one reply is the 500
C24_Witness ==
  \E r \in Rids :
    /\ Len(req[r].replies) = 1
    /\ req[r].replies[1].status = 500
    /\ Len(req[r].calls) = 3

\* C25: one request makes at most as many backend calls as its candidate
\* list is long, at most three, and no two of them for the same model
C25_CallsBounded ==
  \A r \in Rids :
    /\ Len(req[r].calls) <= Len(req[r].modelsToTry)
    /\ Len(req[r].calls) <= 3
    /\ \A i, j \in 1..Len(req[r].calls) :
         i # j => req[r].calls[i].model # req[r].calls[j].model

\* a request for orca-mini has made its two calls and both have failed
C25_Witness ==
  \E r \in Rids :
    /\ Replied(r)
    /\ req[r].model = <<"orca-mini">>
    /\ Len(req[r].calls) = 2
    /\ Len(req[r].modelsToTry) = 2

\* the tokens that open the proxy's note and the widget's note; the token
\* after an opening is the model the note names
NoteOpenings == {"_(Used fallback model '", "_(Note: used smaller local model '"}
Annotations(text) == {i \in 1..Len(text) : text[i] \in NoteOpenings}

\* C26: widget and proxy together: every fallback annotation in the text
\* shown to the user names the model whose backend call produced the text
C26_AnnotationNamesServingModel ==
  [][\A c \in Rids :
       SurfacesReply(c) =>
         \A i \in Annotations(messages'[Len(messages')].text) :
           <<messages'[Len(messages')].text[i + 1]>> = Serving(c)]_vars

\* C27: widget and proxy together: the text shown for one message has at
\* most one fallback annotation
C27_AtMostOneAnnotation ==
  \A i \in 1..Len(messages) :
    messages[i].sender = "bot" => Cardinality(Annotations(messages[i].text)) <= 1

\* the bot messages that answer user messages (the greeting is not one)
BotReplies == {i \in 2..Len(messages) : messages[i].sender = "bot"}

\* C28: generateBotResponse never rejects: whatever way each candidate ends,
\* the call resolves to a text, so every user message that handleSendMessage
\* has accepted is eventually followed by its one bot message, never by
\* more, and isLoading returns to false
C28_EveryMessageAnswered ==
  /\ [](Cardinality(BotReplies) <= Cardinality(UserMessages))
  /\ [](\A i \in BotReplies : messages[i].text # <<>>)
  /\ \A k \in 1..MaxMsgs :
       (Cardinality(UserMessages) >= k) ~> (Cardinality(BotReplies) >= k)
  /\ isLoading ~> ~isLoading

\* every candidate of the widget has failed and the user has the guidance
C28_Witness ==
  /\ Cardinality(BotReplies) = 1
  /\ ~isLoading
  /\ \E i \in BotReplies : messages[i].text[1] = "**Error**: "

\* the calls of generateBotResponse that have not returned
Outstanding == {c \in DOMAIN gen : gen[c].pc # "idle"}

\* C29: while isLoading is true neither the send button nor the Enter key
\* starts a second request: no user message is added while loading, at most
\* one call of generateBotResponse is outstanding, and user and bot messages
\* alternate in the transcript
C29_OneRequestAtATime ==
  /\ [](Cardinality(Outstanding) <= 1)
  /\ [](\A i \in 1..(Len(messages) - 1) : messages[i].sender # messages[i + 1].sender)
  /\ [][isLoading => Len(messages') <= Len(messages)
                      \/ messages'[Len(messages')].sender = "bot"]_vars

\* the message the catch of generateBotResponse chooses for an error text
Chosen(w, msg) ==
  IF \E i \in 1..Len(msg) : msg[i] = "Failed to fetch"
    THEN <<"**Server Connection Error** ... npm run server">>
  ELSE IF \E i \in 1..Len(msg) : msg[i] = "Failed to communicate with Ollama"
    THEN <<"**Ollama Not Running** ... ollama serve">>
  ELSE IF w = "part_001"
    THEN <<"**Error**: ">> \o msg
           \o <<"\n", "\n", "Make sure both the chat server and Ollama are running properly.">>
  ELSE <<"**Error**: ">> \o msg

\* the errors the widget's last candidate can end in, from where it stands
LastErrors(c) ==
  IF gen[c].pc = "posting" THEN {<<"Failed to fetch">>}
  ELSE IF req[c].replies[1].status = 200 THEN {<<"Empty response from AI">>}
  ELSE {req[c].replies[1].details,
        <<"Server error: ", ToString(req[c].replies[1].status)>>}

\* the call c ends with the failure of the last candidate of the list
FailsLast(c) ==
  /\ gen[c].idx = Len(PreferredModels(widget))
  /\ gen[c].pc \in {"posting", "waiting"}
  /\ gen'[c].pc = "idle"
  /\ Len(messages') = Len(messages) + 1
  /\ ~SurfacesReply(c)

\* C30: when all candidates of the widget have failed, the message shown is
\* chosen from the error of the last candidate alone: the server guidance
\* for 'Failed to fetch', the Ollama guidance for 'Failed to communicate
\* with Ollama', the generic error text otherwise
C30_LastErrorDecides ==
  [][\A c \in Rids :
       FailsLast(c) =>
         /\ messages'[Len(messages')].sender = "bot"
         /\ messages'[Len(messages')].text
              \in {Chosen(widget, e) : e \in LastErrors(c)}]_vars

\* every candidate has failed, the last one by a fetch that was rejected
C30_Witness ==
  /\ widget = "part_001"
  /\ ~isLoading
  /\ Cardinality(BotReplies) = 1
  /\ \E i \in BotReplies :
       messages[i].text = <<"**Server Connection Error** ... npm run server">>

====
